---- MODULE Spec2Model ----
(***************************************************************************)
(* A model of the resource projection expression parser                    *)
(* (googlecloudsdk/core/resource/resource_projection_parser.py).           *)
(*                                                                         *)
(* The Lexer, the Filter Compiler and the ProjectionSpec are external      *)
(* collaborators: what the Lexer returns (keys, tokens, converted values,  *)
(* the next character) is the input of the model, drawn from small sets.   *)
(* Python object identity is modelled where the parser relies on it: a     *)
(* column entry either shares the Attribute of the key's tree node or      *)
(* owns an Attribute of its own (a copy, or one never attached).           *)
(***************************************************************************)
EXTENDS Integers, Sequences, FiniteSets, TLC

VARIABLES
  pc,            \* position of Parse: idle, top, key, keysep, attr, attrsep
  result,        \* how the last Parse call ended: none, returned, or an error kind
  kao,           \* Parser.__key_attributes_only
  defaults,      \* the local flag `defaults` of Parse
  tree,          \* the projection tree: path -> Attribute (root at <<>>)
  columns,       \* ProjectionSpec columns, in AddKey order
  aliases,       \* ProjectionSpec alias table: label or alias -> key
  attributes,    \* ProjectionSpec global attributes: name -> value
  specName,      \* ProjectionSpec name set by SetName
  empty,         \* the Attribute of the tree handed to SetEmpty
  headings,      \* Parser._snake_headings (the label registry)
  defaultsCalls, \* number of Defaults() invocations of the current Parse call
  log,           \* the input consumed by the current Parse call: all of it
                 \* when mode is "trace", else only the last item
  mode,          \* which inputs the exploration draws; never changes
  parses,        \* number of Parse calls started on this Parser
  nkeys,         \* number of keys parsed in this session
  nsegs,         \* number of segments and attribute tokens parsed in this session
  first,         \* history, kept when mode is "twice": the expression of the
                 \* first Parse call and the tree and columns it returned with
  lastLabelled,  \* history, kept when mode is "alias": label -> the key of the
                 \* most recent _AddKey call that ended with that label
  wpc,           \* position of WaitForOperation: idle, loop, ended
  timeout,       \* WaitForOperation's timeout argument
  ticks,         \* WaitForOperation's local ticks
  responses,     \* history: what each operations.Get call of the wait produced
  outcome        \* how WaitForOperation ended: none, returned, or what it raised

waitVars == <<wpc, timeout, ticks, responses, outcome>>

parserVars == <<pc, result, kao, defaults, tree, columns, aliases, attributes,
                specName, empty, headings, defaultsCalls, log, parses, nkeys,
                nsegs, first, lastLabelled>>

vars == <<parserVars, waitVars, mode>>

----------------------------------------------------------------------------
(* Bounds of the exploration. *)
MaxParses == 2
MaxKeys == 2
MaxSegs == 3

----------------------------------------------------------------------------
(* Python values. None is <<>>, a set optional value v is <<v>>. *)
None == <<>>

Some(v) == <<v>>

IntV(n) == [t |-> "int", i |-> n, s |-> ""]

StrV(str) == [t |-> "str", i |-> 0, s |-> str]

\* Python truth of a converted token: 0 and '' are false.
Truthy(v) == IF v.t = "int" THEN v.i # 0 ELSE v.s # ""

\* A name token as the Lexer returns it: the text is "no-" + base when no.
Tok(base) == [no |-> FALSE, base |-> base]

NoTok(base) == [no |-> TRUE, base |-> base]

----------------------------------------------------------------------------
(* Keys. A name component carries its characters, so that the case         *)
(* conversion of _AngrySnakeCase is computed, not assumed.                 *)
Name(chars) == [t |-> "name", s |-> chars, i |-> 0]

Index(n) == [t |-> "index", s |-> <<>>, i |-> n]

Slice == [t |-> "slice", s |-> <<>>, i |-> 0]

\* key[-1] if key else '': the tree name of the empty key is the empty string.
EmptyName == Name(<<>>)

Front(seq) == SubSeq(seq, 1, Len(seq) - 1)

Last(seq) == seq[Len(seq)]

IsPrefix(p, q) == Len(p) <= Len(q) /\ SubSeq(q, 1, Len(p)) = p

\* ProjectionSpec flag and alignment constants.
DEFAULT == "DEFAULT"

INNER == "INNER"

PROJECT == "PROJECT"

ALIGN_DEFAULT == "default"

ALIGNMENTS == {"left", "center", "right"}

----------------------------------------------------------------------------
(* _Attribute.__init__. lreg is a history field, not a field of the        *)
(* program: the number of the _AngrySnakeCase registration that produced   *)
(* the label, 0 when the label was not produced by a registering call.     *)
Attribute(flag) ==
  [flag |-> flag, order |-> None, label |-> None, reverse |-> None,
   hidden |-> FALSE, align |-> ALIGN_DEFAULT, transform |-> None,
   subformat |-> None, lreg |-> 0]

----------------------------------------------------------------------------
(* _AngrySnakeCase: the regular expression                                 *)
(*   ((?<=[a-z0-9])[A-Z]+|(?!^)[A-Z](?=[a-z]))                             *)
(* substituted by _\1, then upper().                                       *)
LowerChars == {"a", "b", "c", "f", "g", "x"}

UpperChars == {"A", "B", "C", "F", "G", "X"}

DigitChars == {"0", "1"}

Upper(ch) ==
  CASE ch = "a" -> "A" [] ch = "b" -> "B" [] ch = "c" -> "C"
    [] ch = "f" -> "F" [] ch = "g" -> "G" [] ch = "x" -> "X"
    [] OTHER -> ch

RECURSIVE UpperRunEnd(_, _)
\* the last position of the run of upper-case characters starting at p
UpperRunEnd(s, p) ==
  IF p < Len(s) /\ s[p + 1] \in UpperChars THEN UpperRunEnd(s, p + 1) ELSE p

RECURSIVE UpperJoin(_, _, _)
UpperJoin(s, p, q) ==
  IF p > q THEN "" ELSE Upper(s[p]) \o UpperJoin(s, p + 1, q)

RECURSIVE SnakeFrom(_, _)
\* re.sub scans left to right; at each position the first alternative is
\* tried before the second, and a match is skipped over.
SnakeFrom(s, p) ==
  IF p > Len(s) THEN ""
  ELSE IF /\ s[p] \in UpperChars
          /\ p > 1
          /\ s[p - 1] \in (LowerChars \cup DigitChars)
       THEN LET q == UpperRunEnd(s, p)
            IN "_" \o UpperJoin(s, p, q) \o SnakeFrom(s, q + 1)
  ELSE IF /\ s[p] \in UpperChars
          /\ p > 1
          /\ p < Len(s)
          /\ s[p + 1] \in LowerChars
       THEN "_" \o Upper(s[p]) \o SnakeFrom(s, p + 1)
  ELSE Upper(s[p]) \o SnakeFrom(s, p + 1)

KeySnake(chars) == SnakeFrom(chars, 1)

RECURSIVE SnakeLoopNoCheck(_, _, _, _)
\* the loop of _AngrySnakeCase without the registry test: the first name
\* component from the right is always taken.
SnakeLoopNoCheck(key, i, label, H) ==
  IF i = 0 THEN [label |-> label, headings |-> H, lreg |-> 0]
  ELSE IF key[i].t = "name"
       THEN LET ks == KeySnake(key[i].s)
                l2 == IF label # "" THEN ks \o "_" \o label ELSE ks
            IN [label |-> l2, headings |-> H \cup {l2},
                lreg |-> Cardinality(H) + 1]
       ELSE SnakeLoopNoCheck(key, i - 1, label, H)

RECURSIVE SnakeLoop(_, _, _, _)
\* for index in reversed(key): ... ; i is the position of the component.
SnakeLoop(key, i, label, H) ==
  IF i = 0 THEN [label |-> label, headings |-> H, lreg |-> 0]
  ELSE IF key[i].t = "name"
       THEN LET ks == KeySnake(key[i].s)
                l2 == IF label # "" THEN ks \o "_" \o label ELSE ks
            IN IF l2 \notin H
               THEN [label |-> l2, headings |-> H \cup {l2},
                     lreg |-> Cardinality(H) + 1]
               ELSE SnakeLoop(key, i - 1, l2, H)
       ELSE SnakeLoop(key, i - 1, label, H)

\* the label is returned and the registry is left as it was
AngrySnakeCaseUnregistered(key, H) ==
  [SnakeLoop(key, Len(key), "", H) EXCEPT !.headings = H]

\* Returns the label, the registry after the call, and the registration
\* number (0 when the loop ended without registering).
AngrySnakeCase(key, H) == SnakeLoop(key, Len(key), "", H)

----------------------------------------------------------------------------
(* ProjectionSpec operations used by the parser. *)

\* AddAlias(name, key): aliases[name] = key. The name is a Python value,
\* <<v>>, or None.
AddAlias(A, name, key) ==
  [n \in DOMAIN A \cup {name} |-> IF n = name THEN key ELSE A[n]]

\* AddAttribute(name, value): attributes[name] = value
AddAttribute(G, name, value) ==
  [n \in DOMAIN G \cup {name} |-> IF n = name THEN value ELSE G[n]]

\* DelAttribute(name): removes name when present
DelAttribute(G, name) == [n \in DOMAIN G \ {name} |-> G[n]]

\* Columns() entry added by AddKey(key, attribute). own is None when the
\* entry holds the very Attribute object of the key's tree node, and
\* <<attribute>> when it holds an object of its own.
Column(key, own) == [key |-> key, own |-> own]

\* The tree path of a key's terminal node.
NodePath(key) == IF key = <<>> THEN <<EmptyName>> ELSE key

\* The Attribute a column entry holds, read through the tree when shared.
ColAttr(T, c) == IF c.own = None THEN T[NodePath(c.key)] ELSE c.own[1]

----------------------------------------------------------------------------
(* _AddKey *)

InnerFlagDemoting(attribute) == [attribute EXCEPT !.flag = INNER]

\* lines 159-161: an existing inner node becomes INNER unless it is PROJECT
InnerFlag(attribute) ==
  IF attribute.flag # PROJECT
  THEN [attribute EXCEPT !.flag = INNER]
  ELSE attribute

\* the inner nodes with a missing node created as a plain DEFAULT node
InnerNodesDefault(T, key) ==
  LET inner == {SubSeq(key, 1, j) : j \in 1..(Len(key) - 1)}
  IN [p \in DOMAIN T \cup inner |->
        IF p \in inner
        THEN IF p \in DOMAIN T THEN InnerFlag(T[p]) ELSE Attribute(DEFAULT)
        ELSE T[p]]

\* lines 156-164: add or update the inner nodes of key
InnerNodes(T, key) ==
  LET inner == {SubSeq(key, 1, j) : j \in 1..(Len(key) - 1)}
  IN [p \in DOMAIN T \cup inner |->
        IF p \in inner
        THEN IF p \in DOMAIN T THEN InnerFlag(T[p]) ELSE Attribute(INNER)
        ELSE T[p]]

\* the duplicate test that finds no column
InColumnsNever(C, key) == FALSE

\* line 174: the key is already one of the projection's columns
InColumns(C, key) == \E n \in 1..Len(C) : C[n].key = key

\* the node of the slice is copied without the nodes below it
CloneSliceRootOnly(T, from, to) ==
  [p \in DOMAIN T \cup {to} |-> IF p = to THEN T[from] ELSE T[p]]

\* line 187: tree[name] = copy.deepcopy(tree[None]); every node of the
\* slice subtree is copied under the new index.
CloneSlice(T, from, to) ==
  LET sub == {q \in DOMAIN T : IsPrefix(from, q)}
      Moved(q) == to \o SubSeq(q, Len(from) + 1, Len(q))
      new == {Moved(q) : q \in sub}
  IN [p \in DOMAIN T \cup new |->
        IF p \in new
        THEN T[from \o SubSeq(p, Len(to) + 1, Len(p))]
        ELSE T[p]]

HidesNewKeyNever(kaoMode, attribute) == FALSE

\* line 192: self.__key_attributes_only and attribute.order
HidesNewKey(kaoMode, attribute) ==
  kaoMode /\ attribute.order # None /\ Truthy(attribute.order[1])

MergeOverwriting(attribute, add, key, H) ==
  LET snake == AngrySnakeCase(key, H)
  IN [attribute |->
        [attribute EXCEPT
           !.order = add.order,
           !.label = IF add.label # None THEN add.label ELSE Some(StrV(snake.label)),
           !.lreg = IF add.label # None THEN add.lreg ELSE snake.lreg,
           !.align = add.align,
           !.reverse = IF add.reverse # None THEN add.reverse ELSE Some(FALSE),
           !.transform = add.transform,
           !.subformat = add.subformat],
      headings |-> IF add.label # None THEN H ELSE snake.headings]

\* the merge without lines 208-209: an unset reverse stays unset
MergeReverseUnset(attribute, add, key, H) ==
  LET needLabel == add.label = None /\ attribute.label = None
      snake == AngrySnakeCase(key, H)
  IN [attribute |->
        [attribute EXCEPT
           !.order = IF add.order # None THEN add.order ELSE @,
           !.label = IF add.label # None THEN add.label
                     ELSE IF attribute.label = None THEN Some(StrV(snake.label))
                     ELSE @,
           !.lreg = IF add.label # None THEN add.lreg
                    ELSE IF needLabel THEN snake.lreg ELSE @,
           !.align = IF add.align # ALIGN_DEFAULT THEN add.align ELSE @,
           !.reverse = IF add.reverse # None THEN add.reverse ELSE @,
           !.transform = IF add.transform # None THEN add.transform ELSE @,
           !.subformat = IF add.subformat # None /\ Truthy(add.subformat[1])
                         THEN add.subformat ELSE @],
      headings |-> IF needLabel THEN snake.headings ELSE H]

MergedLabelNoDefault(attribute, add, computed) ==
  IF add.label # None THEN add.label ELSE attribute.label

\* lines 200-203: the label given, else the label kept, else the computed one
MergedLabel(attribute, add, computed) ==
  IF add.label # None THEN add.label
  ELSE IF attribute.label = None THEN Some(StrV(computed))
  ELSE attribute.label

\* lines 197-213: propagate the non-default values of attribute_add
Merge(attribute, add, key, H) ==
  LET needLabel == add.label = None /\ attribute.label = None
      snake == AngrySnakeCase(key, H)
  IN [attribute |->
        [attribute EXCEPT
           !.order = IF add.order # None THEN add.order ELSE @,
           !.label = MergedLabel(attribute, add, snake.label),
           !.lreg = IF add.label # None THEN add.lreg
                    ELSE IF needLabel THEN snake.lreg ELSE @,
           !.align = IF add.align # ALIGN_DEFAULT THEN add.align ELSE @,
           !.reverse = IF add.reverse # None THEN add.reverse
                       ELSE IF attribute.reverse = None THEN Some(FALSE) ELSE @,
           !.transform = IF add.transform # None THEN add.transform ELSE @,
           !.subformat = IF add.subformat # None /\ Truthy(add.subformat[1])
                         THEN add.subformat ELSE @],
      headings |-> IF needLabel THEN snake.headings ELSE H]

\* a name that is in the alias table keeps its key
LabelAliasKept(A, attribute, key) ==
  IF attribute.label \in DOMAIN A THEN A ELSE AddAlias(A, attribute.label, key)

\* line 214: the label of the merged Attribute becomes an alias of the key
LabelAlias(A, attribute, key) == AddAlias(A, attribute.label, key)

ProjectsKeyAlways(kaoMode, attribute) == TRUE

\* a hidden Attribute is not projected in key-attributes-only mode
ProjectsKeyUnhidden(kaoMode, attribute) == ~kaoMode

\* line 216: not self.__key_attributes_only or attribute.hidden
ProjectsKey(kaoMode, attribute) == ~kaoMode \/ attribute.hidden

\* _AddKey's last step with the column list kept in sort order: a key with
\* a sort value is put in front of the others.
ProjectKeySorted(key, kaoMode, nameInTree, shared, T2, C, A, merged) ==
  LET projects == ProjectsKey(kaoMode, merged.attribute)
      attr2 == IF projects THEN [merged.attribute EXCEPT !.flag = PROJECT]
               ELSE IF ~nameInTree THEN [merged.attribute EXCEPT !.flag = DEFAULT]
               ELSE merged.attribute
      col == Column(key, IF shared THEN None ELSE Some(attr2))
  IN [tree |-> IF shared
               THEN [p \in DOMAIN T2 \cup {NodePath(key)} |->
                       IF p = NodePath(key) THEN attr2 ELSE T2[p]]
               ELSE T2,
      columns |-> IF ~projects THEN C
                  ELSE IF attr2.order # None THEN <<col>> \o C
                  ELSE Append(C, col),
      aliases |-> LabelAlias(A, attr2, key),
      headings |-> merged.headings,
      label |-> attr2.label]

\* _AddKey's last step with the merged Attribute written to the key's tree
\* node also when the column holds a copy
ProjectKeyInPlace(key, kaoMode, nameInTree, shared, T2, C, A, merged) ==
  LET projects == ProjectsKey(kaoMode, merged.attribute)
      attr2 == IF projects THEN [merged.attribute EXCEPT !.flag = PROJECT]
               ELSE IF ~nameInTree THEN [merged.attribute EXCEPT !.flag = DEFAULT]
               ELSE merged.attribute
  IN [tree |-> IF shared \/ nameInTree
               THEN [p \in DOMAIN T2 \cup {NodePath(key)} |->
                       IF p = NodePath(key) THEN attr2 ELSE T2[p]]
               ELSE T2,
      columns |-> IF projects
                  THEN Append(C, Column(key, IF shared THEN None ELSE Some(attr2)))
                  ELSE C,
      aliases |-> LabelAlias(A, attr2, key),
      headings |-> merged.headings,
      label |-> attr2.label]

\* lines 214-222: the alias of the label is registered, and the key is
\* projected or, when new in key-attributes-only mode, flagged DEFAULT.
\* shared tells that the merged Attribute is the one of the key's tree node.
ProjectKey(key, kaoMode, nameInTree, shared, T2, C, A, merged) ==
  LET projects == ProjectsKey(kaoMode, merged.attribute)
      attr2 == IF projects THEN [merged.attribute EXCEPT !.flag = PROJECT]
               ELSE IF ~nameInTree THEN [merged.attribute EXCEPT !.flag = DEFAULT]
               ELSE merged.attribute
  IN [tree |-> IF shared
               THEN [p \in DOMAIN T2 \cup {NodePath(key)} |->
                       IF p = NodePath(key) THEN attr2 ELSE T2[p]]
               ELSE T2,
      columns |-> IF projects
                  THEN Append(C, Column(key, IF shared THEN None ELSE Some(attr2)))
                  ELSE C,
      aliases |-> LabelAlias(A, attr2, key),
      headings |-> merged.headings,
      label |-> attr2.label]

\* lines 166-213: the terminal node of key in the tree T1 whose inner nodes
\* are in place: found (a copy of its Attribute when the key is a duplicate
\* column), cloned from the slice, or new; attribute_add is merged into it.
TerminalNode(key, add, kaoMode, T1, C, A, H) ==
  LET name == IF key = <<>> THEN EmptyName ELSE Last(key)
      tpath == NodePath(key)
      nameInTree == tpath \in DOMAIN T1
      slicePath == Front(tpath) \o <<Slice>>
      duplicate == nameInTree /\ ~kaoMode /\ InColumns(C, key)
      clone == ~nameInTree /\ name.t = "index" /\ slicePath \in DOMAIN T1
      attached == nameInTree \/ clone \/ key # <<>> \/ add.transform # None
      attr0 == IF nameInTree THEN [T1[tpath] EXCEPT !.hidden = FALSE]
               ELSE IF clone THEN T1[slicePath]
               ELSE IF HidesNewKey(kaoMode, add)
                    THEN [add EXCEPT !.hidden = TRUE]
                    ELSE add
  IN ProjectKey(key, kaoMode, nameInTree, attached /\ ~duplicate,
                IF clone THEN CloneSlice(T1, slicePath, tpath) ELSE T1,
                C, A, Merge(attr0, add, key, H))

\* The whole of _AddKey: the tree, columns, alias table and label registry
\* after adding key with the parsed attribute add.
AddKey(key, add, kaoMode, T, C, A, H) ==
  TerminalNode(key, add, kaoMode, InnerNodes(T, key), C, A, H)

----------------------------------------------------------------------------
(* _ParseKeyAttributes. A clause is what the Lexer returned for it: the    *)
(* name token, whether '=' followed (valued), and the converted value.     *)
Clause(name, valued, value) == [name |-> name, valued |-> valued, value |-> value]

_BOOLEAN_ATTRIBUTES == {Tok("reverse")}

\* lines 239-248: the name and value after the optional no- prefix is cut
ClauseName(c) == IF ~c.valued /\ c.name.no THEN Tok(c.name.base) ELSE c.name

KnownClauseAny(name) == TRUE

\* lines 258-278: the names the if/elif chain recognises
KnownClause(name) ==
  name \in {Tok("alias"), Tok("align"), Tok("format"), Tok("label"),
            Tok("reverse"), Tok("sort")}

\* One iteration of the loop, lines 237-278: "ok" or the error raised,
\* with the attribute and the alias table after it.
ParseClause(c, key, attribute, A) ==
  LET name == ClauseName(c)
      booleanValue == ~c.valued
      fail == [err |-> "ExpressionSyntaxError", attribute |-> attribute,
               aliases |-> A]
      ok(a) == [err |-> "none", attribute |-> a, aliases |-> A]
  IN IF name \in _BOOLEAN_ATTRIBUTES /\ ~booleanValue THEN fail
     ELSE IF name \notin _BOOLEAN_ATTRIBUTES /\ booleanValue THEN fail
     ELSE IF ~KnownClause(name) THEN fail
     ELSE IF name = Tok("alias")
          THEN IF ~Truthy(c.value) THEN fail
               ELSE [err |-> "none", attribute |-> attribute,
                     aliases |-> AddAlias(A, Some(c.value), key)]
     ELSE IF name = Tok("align")
          THEN IF ~(c.value.t = "str" /\ c.value.s \in ALIGNMENTS) THEN fail
               ELSE ok([attribute EXCEPT !.align = c.value.s])
     ELSE IF name = Tok("format")
          THEN ok([attribute EXCEPT
                     !.subformat = Some(IF Truthy(c.value) THEN c.value
                                        ELSE StrV(""))])
     ELSE IF name = Tok("label")
          THEN ok([attribute EXCEPT
                     !.label = Some(IF Truthy(c.value) THEN c.value
                                    ELSE StrV("")),
                     !.lreg = 0])
     ELSE IF name = Tok("reverse")
          THEN ok([attribute EXCEPT !.reverse = Some(~c.name.no)])
     ELSE IF name = Tok("sort")
          THEN ok([attribute EXCEPT !.order = Some(c.value)])
     ELSE ok(attribute)

RECURSIVE ParseKeyAttributes(_, _, _, _)
\* the while loop: clauses are parsed in order and the first error ends it
ParseKeyAttributes(clauses, key, attribute, A) ==
  IF clauses = <<>> THEN [err |-> "none", attribute |-> attribute, aliases |-> A]
  ELSE LET r == ParseClause(Head(clauses), key, attribute, A)
       IN IF r.err # "none" THEN r
          ELSE ParseKeyAttributes(Tail(clauses), key, r.attribute, r.aliases)

----------------------------------------------------------------------------
(* _ParseKey. The input is what the Lexer and the Filter Compiler return:  *)
(* the key, whether '(' follows it, the truth of the transform's           *)
(* conditional (None when it has none), and the clauses after ':'.         *)
KeyInput(key, paren, cond, clauses) ==
  [t |-> "key", key |-> key, paren |-> paren, cond |-> cond, clauses |-> clauses]

\* lexer.Transform(func_name, active): the transform object
Transform(funcName, cond) == [name |-> funcName, conditional |-> cond]

ParseKeyInsertingOnError(inp, kaoMode, T, C, A, H) ==
  LET attr == Attribute(PROJECT)
      added == AddKey(inp.key, attr, kaoMode, T, C, A, H)
      r == ParseKeyAttributes(inp.clauses, inp.key, attr, A)
  IN [outcome |-> IF r.err # "none" THEN r.err ELSE "added",
      tree |-> added.tree, columns |-> added.columns,
      aliases |-> added.aliases, headings |-> added.headings,
      key |-> inp.key, label |-> added.label]

\* lines 294-298: the Attribute of the key before its clauses are parsed
NewAttribute(inp) ==
  IF inp.paren
  THEN [Attribute(PROJECT) EXCEPT
          !.transform = Some(Transform(Last(inp.key).s, inp.cond))]
  ELSE Attribute(PROJECT)

\* _ParseKey with the label of a whole-resource transform seeded before the
\* conditional is evaluated: a discarded key has registered its label.
AfterKeyAttributesSeedingFirst(inp, key, kaoMode, T, C, H, r) ==
  LET funcName == IF inp.paren THEN Some(Last(inp.key).s) ELSE None
      seeded == /\ funcName # None
                /\ funcName[1] # <<>>
                /\ r.attribute.label = None
                /\ key = <<>>
      seed == AngrySnakeCase(<<Name(funcName[1])>>, H)
  IN IF r.err # "none"
     THEN [outcome |-> r.err,
           tree |-> T, columns |-> C, aliases |-> r.aliases, headings |-> H]
     ELSE IF inp.paren /\ inp.cond = Some(FALSE)
     THEN [outcome |-> "discarded",
           tree |-> T, columns |-> C, aliases |-> r.aliases,
           headings |-> IF seeded THEN seed.headings ELSE H]
     ELSE [outcome |-> "added", key |-> key] @@
          AddKey(key,
                 IF seeded
                 THEN [r.attribute EXCEPT !.label = Some(StrV(seed.label)),
                                          !.lreg = seed.lreg]
                 ELSE r.attribute,
                 kaoMode, T, C, r.aliases,
                 IF seeded THEN seed.headings ELSE H)

\* lines 304-319, with r the result of _ParseKeyAttributes: the error ends
\* the call, a false conditional discards the key, else the label of a
\* transform on the whole resource is seeded and the key is added.
AfterKeyAttributes(inp, key, kaoMode, T, C, H, r) ==
  LET funcName == IF inp.paren THEN Some(Last(inp.key).s) ELSE None
      seeded == /\ funcName # None
                /\ funcName[1] # <<>>
                /\ r.attribute.label = None
                /\ key = <<>>
      seed == AngrySnakeCase(<<Name(funcName[1])>>, H)
  IN IF r.err # "none" \/ (inp.paren /\ inp.cond = Some(FALSE))
     THEN [outcome |-> IF r.err # "none" THEN r.err ELSE "discarded",
           tree |-> T, columns |-> C, aliases |-> r.aliases, headings |-> H]
     ELSE [outcome |-> "added", key |-> key] @@
          AddKey(key,
                 IF seeded
                 THEN [r.attribute EXCEPT !.label = Some(StrV(seed.label)),
                                          !.lreg = seed.lreg]
                 ELSE r.attribute,
                 kaoMode, T, C, r.aliases,
                 IF seeded THEN seed.headings ELSE H)

\* _ParseKey with the alias clauses taking effect only when the key is
\* inserted: a discarded key or a raised error leaves the alias table alone.
ParseKeyAliasingOnInsert(inp, kaoMode, T, C, A, H) ==
  IF inp.paren /\ inp.key = <<>>
  THEN [outcome |-> "IndexError",
        tree |-> T, columns |-> C, aliases |-> A, headings |-> H]
  ELSE LET r == AfterKeyAttributes(
                  inp, IF inp.paren THEN Front(inp.key) ELSE inp.key, kaoMode,
                  T, C, H,
                  ParseKeyAttributes(inp.clauses,
                                     IF inp.paren THEN Front(inp.key) ELSE inp.key,
                                     NewAttribute(inp), A))
       IN IF r.outcome = "added" THEN r ELSE [r EXCEPT !.aliases = A]

\* The whole of _ParseKey: the outcome ("added", "discarded" or the error
\* raised) and the tree, columns, alias table and registry after it.
ParseKey(inp, kaoMode, T, C, A, H) ==
  IF inp.paren /\ inp.key = <<>>
  THEN [outcome |-> "IndexError",       \* key.pop() of an empty list
        tree |-> T, columns |-> C, aliases |-> A, headings |-> H]
  ELSE AfterKeyAttributes(
         inp, IF inp.paren THEN Front(inp.key) ELSE inp.key, kaoMode, T, C, H,
         ParseKeyAttributes(inp.clauses,
                            IF inp.paren THEN Front(inp.key) ELSE inp.key,
                            NewAttribute(inp), A))

----------------------------------------------------------------------------
(* The inputs of the exploration. *)
a == Name(<<"a">>)

b == Name(<<"b">>)

c == Name(<<"c">>)

f == Name(<<"f">>)

g == Name(<<"g">>)

Keys == {<<>>, <<a>>, <<b>>, <<a, b>>, <<a, b, c>>,
         <<a, Slice>>, <<a, Index(0)>>, <<a, Slice, b>>}

\* "main": plain keys of every shape, and '(' after the empty key
KeyInputs ==
  {KeyInput(k, FALSE, None, <<>>) : k \in Keys}
  \cup {KeyInput(<<>>, TRUE, None, <<>>)}

\* "labels": keys whose default labels collide, a mixed-case name, an
\* explicit label, a slice and an index of it, the transform f() on the
\* whole resource, with and without a false conditional, and a.f() with a
\* false conditional and an alias clause
LabelKeyInputs ==
  {KeyInput(k, FALSE, None, <<>>) :
     k \in {<<a>>, <<b>>, <<a, b>>, <<Name(<<"a", "B">>)>>,
            <<a, Slice>>, <<a, Index(0)>>}}
  \cup {KeyInput(<<a>>, FALSE, None, <<Clause(Tok("label"), TRUE, StrV("X"))>>)}
  \cup {KeyInput(<<f>>, TRUE, cond, <<>>) : cond \in {None, Some(FALSE)}}
  \cup {KeyInput(<<a, f>>, TRUE, Some(FALSE),
                 <<Clause(Tok("alias"), TRUE, StrV("X"))>>)}

\* "trace": the keys of the literal scenarios
TraceKeyInputs ==
  {KeyInput(<<a>>, FALSE, None, <<>>),
   KeyInput(<<b>>, FALSE, None, <<>>),
   KeyInput(<<a, b>>, FALSE, None, <<>>),
   KeyInput(<<a>>, FALSE, None, <<Clause(Tok("sort"), TRUE, IntV(1))>>)}

\* "clauses": every form of clause, alone and chained, on key a
ValuedClauses ==
  {Clause(Tok("alias"), TRUE, StrV("X")),
   Clause(Tok("alias"), TRUE, IntV(0)),
   Clause(Tok("align"), TRUE, StrV("left")),
   Clause(Tok("align"), TRUE, StrV("X")),
   Clause(Tok("format"), TRUE, StrV("X")),
   Clause(Tok("label"), TRUE, StrV("X")),
   Clause(Tok("sort"), TRUE, IntV(1)),
   Clause(Tok("reverse"), TRUE, IntV(1)),
   Clause(NoTok("reverse"), TRUE, IntV(1)),
   Clause(Tok("bogus"), TRUE, IntV(1))}

BooleanClauses ==
  {Clause(n, FALSE, IntV(0)) :
     n \in {Tok("reverse"), NoTok("reverse"), Tok("sort"), NoTok("sort"),
            Tok("alias"), Tok("bogus")}}

ChainedClauses ==
  {<<Clause(Tok("alias"), TRUE, StrV("X")), Clause(Tok("bogus"), TRUE, IntV(1))>>,
   <<Clause(Tok("sort"), TRUE, IntV(1)), Clause(NoTok("reverse"), FALSE, IntV(0))>>,
   <<Clause(Tok("label"), TRUE, StrV("X")), Clause(Tok("sort"), FALSE, IntV(0))>>}

ClauseKeyInputs ==
  {KeyInput(<<a>>, FALSE, None, cl) :
     cl \in {<<>>} \cup {<<cl1>> : cl1 \in ValuedClauses \cup BooleanClauses}
            \cup ChainedClauses}

\* "merge": repeated mentions of key a with different clauses and with a
\* transform, key a as a path prefix, the transforms f() and g() on the
\* whole resource, and the empty key with a sort clause
MergeKeyInputs ==
  {KeyInput(<<a>>, FALSE, None, cl) :
     cl \in {<<>>,
             <<Clause(Tok("sort"), TRUE, IntV(1))>>,
             <<Clause(Tok("label"), TRUE, StrV("X"))>>,
             <<Clause(Tok("align"), TRUE, StrV("right")),
               Clause(Tok("reverse"), FALSE, IntV(0))>>,
             <<Clause(Tok("format"), TRUE, StrV("X"))>>}}
  \cup {KeyInput(<<a, b>>, FALSE, None, <<>>),
        KeyInput(<<a, f>>, TRUE, None, <<>>),
        KeyInput(<<f>>, TRUE, None, <<>>),
        KeyInput(<<g>>, TRUE, None, <<>>),
        KeyInput(<<>>, FALSE, None, <<Clause(Tok("sort"), TRUE, IntV(1))>>)}

\* "order": two keys with sort values against their positions, and key a,
\* a slice of it and an index of it with and without reverse clauses
OrderKeyInputs ==
  {KeyInput(<<a>>, FALSE, None, <<Clause(Tok("sort"), TRUE, IntV(2))>>),
   KeyInput(<<b>>, FALSE, None, <<Clause(Tok("sort"), TRUE, IntV(1))>>),
   KeyInput(<<a>>, FALSE, None, <<>>),
   KeyInput(<<a>>, FALSE, None, <<Clause(Tok("reverse"), FALSE, IntV(0))>>),
   KeyInput(<<a>>, FALSE, None, <<Clause(NoTok("reverse"), FALSE, IntV(0))>>),
   KeyInput(<<a, Slice>>, FALSE, None, <<Clause(Tok("reverse"), FALSE, IntV(0))>>),
   KeyInput(<<a, Index(0)>>, FALSE, None, <<>>)}

\* "twice": the keys of expressions that are parsed a second time
TwiceKeyInputs ==
  {KeyInput(<<a>>, FALSE, None, <<>>),
   KeyInput(<<a, b>>, FALSE, None, <<>>),
   KeyInput(<<a>>, FALSE, None, <<Clause(Tok("sort"), TRUE, IntV(1))>>),
   KeyInput(<<>>, FALSE, None, <<>>)}

\* "wild": a slice with a child, an index of the same parent, and later
\* mentions below the index and below the slice, with sort values 0 and 1
WildKeyInputs ==
  {KeyInput(<<a, Slice, b>>, FALSE, None, <<>>),
   KeyInput(<<a, Index(0)>>, FALSE, None, <<>>),
   KeyInput(<<a, Index(0), b>>, FALSE, None, <<Clause(Tok("sort"), TRUE, IntV(0))>>),
   KeyInput(<<a, Slice, b>>, FALSE, None, <<Clause(Tok("label"), TRUE, StrV("X"))>>),
   KeyInput(<<a, Slice>>, FALSE, None, <<Clause(Tok("sort"), TRUE, IntV(1))>>)}

\* "alias": a label and an alias clause of the same name on different
\* keys, the alias clause on a key that is discarded and before a clause
\* that is rejected, and the plain keys
AliasKeyInputs ==
  {KeyInput(<<a>>, FALSE, None, <<Clause(Tok("label"), TRUE, StrV("X"))>>),
   KeyInput(<<b>>, FALSE, None, <<Clause(Tok("alias"), TRUE, StrV("X"))>>),
   KeyInput(<<a>>, FALSE, None, <<>>),
   KeyInput(<<b>>, FALSE, None, <<>>),
   KeyInput(<<b, f>>, TRUE, Some(FALSE), <<Clause(Tok("alias"), TRUE, StrV("X"))>>),
   KeyInput(<<b>>, FALSE, None, <<Clause(Tok("alias"), TRUE, StrV("X")),
                                  Clause(Tok("bogus"), TRUE, IntV(1))>>)}

KeyInputsOf(m) ==
  CASE m = "main" -> KeyInputs
    [] m = "alias" -> AliasKeyInputs
    [] m = "wild" -> WildKeyInputs
    [] m = "labels" -> LabelKeyInputs
    [] m = "trace" -> TraceKeyInputs
    [] m = "attrs" -> {KeyInput(<<a>>, FALSE, None, <<>>)}
    [] m = "clauses" -> ClauseKeyInputs
    [] m = "order" -> OrderKeyInputs
    [] m = "twice" -> TwiceKeyInputs
    [] OTHER -> MergeKeyInputs

\* the keys one session parses: one more where a slice is made, cloned and
\* then changed
KeyBudget(m) == IF m = "wild" THEN MaxKeys + 1 ELSE MaxKeys

FormatNames == {<<"a", "b">>, <<"a", "1">>}

AttrInput(name, valued, value) ==
  [t |-> "attr", name |-> name, valued |-> valued, value |-> value]

AttrInputs ==
  {AttrInput(Tok("x"), FALSE, IntV(0)),
   AttrInput(NoTok("x"), FALSE, IntV(0)),
   AttrInput(Tok(""), FALSE, IntV(0))}

\* "attrs": x and no-x, each with and without a value, and an empty token
ValuedAttrInputs ==
  AttrInputs
  \cup {AttrInput(Tok("x"), TRUE, IntV(2)), AttrInput(NoTok("x"), TRUE, IntV(0))}

AttrInputsOf(m) ==
  CASE m = "trace" -> AttrInputs
    [] m = "attrs" -> ValuedAttrInputs
    [] m = "main" -> {AttrInput(Tok("x"), FALSE, IntV(0)),
                      AttrInput(NoTok("x"), FALSE, IntV(0))}
    [] OTHER -> {AttrInput(Tok("x"), FALSE, IntV(0))}

----------------------------------------------------------------------------
\* the input is appended to the log, or replaces it when no trace is kept
Record(item) ==
  /\ log' = IF mode \in {"trace", "twice", "attrs"} THEN Append(log, item) ELSE <<item>>
  /\ mode' = mode

(* Parser.__init__ *)
InitParser ==
  /\ pc = "idle"
  /\ result = "none"
  /\ kao = FALSE
  /\ defaults = FALSE
  /\ tree = <<>>
  /\ columns = <<>>
  /\ aliases = <<>>
  /\ attributes = <<>>
  /\ specName = None
  /\ empty = None
  /\ headings = {}
  /\ defaultsCalls = 0
  /\ log = <<>>
  /\ parses = 0
  /\ nkeys = 0
  /\ nsegs = 0
  /\ first = None
  /\ lastLabelled = <<>>
  /\ wpc = "idle"
  /\ timeout = None
  /\ ticks = 0
  /\ responses = <<>>
  /\ outcome = "none"

Init == InitParser /\ mode = "main"

InitTrace == InitParser /\ mode = "trace"

InitClauses == InitParser /\ mode = "clauses"

InitLabels == InitParser /\ mode = "labels"

InitMerge == InitParser /\ mode = "merge"

InitOrder == InitParser /\ mode = "order"

InitTwice == InitParser /\ mode = "twice"

InitAttrs == InitParser /\ mode = "attrs"

InitWild == InitParser /\ mode = "wild"

InitAlias == InitParser /\ mode = "alias"

\* raise: the Parse call ends with the error, nothing is undone
Raise(kind) == pc' = "idle" /\ result' = kind

\* ProjectionSpec.Defaults(): the hook is counted; with no defaults given
\* to the Parser it seeds nothing.
Defaults(n) == n + 1

\* str.isalpha() on the characters of the name
IsAlpha(chars) ==
  chars # <<>> /\ \A n \in 1..Len(chars) : chars[n] \in LowerChars \cup UpperChars

\* the root created with the flag of the empty tree's Attribute
GetRootProjected(T) ==
  IF <<>> \in DOMAIN T THEN T ELSE [p \in {<<>>} |-> Attribute(PROJECT)]

\* lines 382-385: the root of the spec, created with flag DEFAULT when the
\* spec has none
GetRoot(T) ==
  IF <<>> \in DOMAIN T THEN T ELSE [p \in {<<>>} |-> Attribute(DEFAULT)]

(* Parse, lines 382-391: the root is fetched or created, the empty tree *)
(* is set, and an absent or empty expression returns at once.           *)
BeginParse ==
  /\ pc = "idle"
  /\ parses < MaxParses
  /\ \E hasExpression \in BOOLEAN :
       /\ parses' = parses + 1
       /\ tree' = GetRoot(tree)
       /\ empty' = Some(Attribute(PROJECT))
       /\ log' = <<>>
       /\ mode' = mode
       /\ defaultsCalls' = 0
       /\ IF hasExpression
          THEN /\ pc' = "top"
               /\ result' = "none"
               /\ defaults' = FALSE
               /\ kao' = FALSE
          ELSE /\ pc' = "idle"
               /\ result' = "returned"
               /\ UNCHANGED <<defaults, kao>>
  /\ first' = IF mode = "twice" /\ parses = 1 /\ result = "returned"
              THEN Some([log |-> log, tree |-> tree, columns |-> columns])
              ELSE first
  /\ UNCHANGED <<columns, aliases, attributes, specName, headings, nkeys, nsegs>>
  /\ UNCHANGED <<lastLabelled, waitVars>>

CallsDefaultsOnce(kaoMode, calls) == ~kaoMode /\ calls = 0

\* line 394: Defaults() is called before a group outside key-attributes-only
\* mode, however many calls the Parse call has made
CallsDefaults(kaoMode, calls) == ~kaoMode

\* every group clears the local flag defaults
ResetsDefaultsAlways(kaoMode) == TRUE

\* lines 394-395: defaults = False before a group outside
\* key-attributes-only mode
ResetsDefaults(kaoMode) == ~kaoMode

(* lines 393-397: '(' ; Defaults() unless in key-attributes-only mode; *)
(* _ParseKeys returns at once on ')' (lines 329-331).                  *)
OpenGroup ==
  /\ pc = "top"
  /\ nsegs < MaxSegs
  /\ \E emptyGroup \in BOOLEAN :
       /\ emptyGroup \/ nkeys < KeyBudget(mode)
       /\ pc' = IF emptyGroup THEN "top" ELSE "key"
       /\ Record([t |-> "group", empty |-> emptyGroup])
  /\ defaults' = IF ResetsDefaults(kao) THEN FALSE ELSE defaults
  /\ defaultsCalls' = IF CallsDefaults(kao, defaultsCalls)
                      THEN Defaults(defaultsCalls)
                      ELSE defaultsCalls
  /\ nsegs' = nsegs + 1
  /\ UNCHANGED <<result, kao, tree, columns, aliases, attributes, specName,
                 empty, headings, parses, nkeys>>
  /\ UNCHANGED <<first, lastLabelled, waitVars>>

\* the state after a _ParseKey call with result r
KeyParsed(r) ==
  /\ tree' = r.tree
  /\ columns' = r.columns
  /\ aliases' = r.aliases
  /\ headings' = r.headings
  /\ lastLabelled' = IF mode = "alias" /\ r.outcome = "added"
                     THEN AddAlias(lastLabelled, r.label, r.key)
                     ELSE lastLabelled
  /\ IF r.outcome \in {"added", "discarded"}
     THEN pc' = "keysep" /\ UNCHANGED result
     ELSE Raise(r.outcome)

(* line 333: one _ParseKey call *)
ParseKeyStep ==
  /\ pc = "key"
  /\ nkeys < KeyBudget(mode)
  /\ \E inp \in KeyInputsOf(mode) :
       /\ Record(inp)
       /\ KeyParsed(ParseKey(inp, kao, tree, columns, aliases, headings))
  /\ nkeys' = nkeys + 1
  /\ UNCHANGED <<kao, defaults, attributes, specName, empty, defaultsCalls,
                 parses, nsegs>>
  /\ UNCHANGED <<first, waitVars>>

(* lines 334-340: ')' ends the key list, ',' continues it, anything else *)
(* is a syntax error.                                                    *)
KeySeparator ==
  /\ pc = "keysep"
  /\ \E ch \in {")", ",", "?"} :
       /\ ch = "," => nkeys < KeyBudget(mode)
       /\ Record([t |-> "sep", ch |-> ch])
       /\ IF ch = ")" THEN pc' = "top" /\ UNCHANGED result
          ELSE IF ch = "," THEN pc' = "key" /\ UNCHANGED result
          ELSE Raise("ExpressionSyntaxError")
  /\ UNCHANGED <<kao, defaults, tree, columns, aliases, attributes, specName,
                 empty, headings, defaultsCalls, parses, nkeys, nsegs>>
  /\ UNCHANGED <<first, lastLabelled, waitVars>>

(* lines 398-399: '[' *)
OpenAttributes ==
  /\ pc = "top"
  /\ nsegs < MaxSegs
  /\ pc' = "attr"
  /\ Record([t |-> "attrs"])
  /\ UNCHANGED <<result, kao, defaults, tree, columns, aliases, attributes,
                 specName, empty, headings, defaultsCalls, parses, nkeys, nsegs>>
  /\ UNCHANGED <<first, lastLabelled, waitVars>>

\* the attribute is added and its counterpart is left in place
SetAttributeKeeping(G, inp) ==
  IF inp.name = Tok("") THEN G
  ELSE AddAttribute(G, inp.name, IF inp.valued THEN inp.value ELSE IntV(1))

\* lines 352-361: the attribute is added and its counterpart deleted
SetAttribute(G, inp) ==
  IF inp.name = Tok("") THEN G
  ELSE LET value == IF inp.valued THEN inp.value ELSE IntV(1)
           counterpart == IF inp.name.no THEN Tok(inp.name.base)
                          ELSE NoTok(inp.name.base)
       IN DelAttribute(AddAttribute(G, inp.name, value), counterpart)

(* lines 351-361: one [no-]name[=value] token of _ParseAttributes *)
ParseAttribute ==
  /\ pc = "attr"
  /\ \E inp \in AttrInputsOf(mode) :
       /\ attributes' = SetAttribute(attributes, inp)
       /\ Record(inp)
  /\ pc' = "attrsep"
  /\ nsegs' = nsegs + 1
  /\ UNCHANGED <<result, kao, defaults, tree, columns, aliases, specName,
                 empty, headings, defaultsCalls, parses, nkeys>>
  /\ UNCHANGED <<first, lastLabelled, waitVars>>

(* lines 362-366: ']' ends the list, ',' continues it, anything else is *)
(* a syntax error.                                                      *)
AttributeSeparator ==
  /\ pc = "attrsep"
  /\ \E ch \in {"]", ",", "?"} :
       /\ ch = "," => nsegs < MaxSegs
       /\ Record([t |-> "sep", ch |-> ch])
       /\ IF ch = "]" THEN pc' = "top" /\ UNCHANGED result
          ELSE IF ch = "," THEN pc' = "attr" /\ UNCHANGED result
          ELSE Raise("ExpressionSyntaxError")
  /\ UNCHANGED <<kao, defaults, tree, columns, aliases, attributes, specName,
                 empty, headings, defaultsCalls, parses, nkeys, nsegs>>
  /\ UNCHANGED <<first, lastLabelled, waitVars>>

(* lines 400-401: ':' *)
Colon ==
  /\ pc = "top"
  /\ nsegs < MaxSegs
  /\ kao' = TRUE
  /\ Record([t |-> "colon"])
  /\ nsegs' = nsegs + 1
  /\ UNCHANGED <<pc, result, defaults, tree, columns, aliases, attributes,
                 specName, empty, headings, defaultsCalls, parses, nkeys>>
  /\ UNCHANGED <<first, lastLabelled, waitVars>>

\* a name segment leaves the mode as it is
KaoAfterNameKept(kaoMode) == kaoMode

\* line 403: self.__key_attributes_only = False
KaoAfterName(kaoMode) == FALSE

(* lines 402-410: a format name *)
FormatName ==
  /\ pc = "top"
  /\ nsegs < MaxSegs
  /\ kao' = KaoAfterName(kao)
  /\ \E name \in FormatNames :
       /\ Record([t |-> "name", name |-> name])
       /\ IF IsAlpha(name)
          THEN /\ specName' = Some(name)
               /\ defaults' = TRUE
               /\ UNCHANGED <<pc, result>>
          ELSE /\ Raise("ExpressionSyntaxError")
               /\ UNCHANGED <<specName, defaults>>
  /\ nsegs' = nsegs + 1
  /\ UNCHANGED <<tree, columns, aliases, attributes, empty, headings,
                 defaultsCalls, parses, nkeys>>
  /\ UNCHANGED <<first, lastLabelled, waitVars>>

(* lines 411-414: end of input *)
EndOfInput ==
  /\ pc = "top"
  /\ pc' = "idle"
  /\ result' = "returned"
  /\ defaultsCalls' = IF defaults THEN Defaults(defaultsCalls) ELSE defaultsCalls
  /\ Record([t |-> "end"])
  /\ UNCHANGED <<kao, defaults, tree, columns, aliases, attributes, specName,
                 empty, headings, parses, nkeys, nsegs>>
  /\ UNCHANGED <<first, lastLabelled, waitVars>>

Next ==
  \/ BeginParse
  \/ OpenGroup
  \/ ParseKeyStep
  \/ KeySeparator
  \/ OpenAttributes
  \/ ParseAttribute
  \/ AttributeSeparator
  \/ Colon
  \/ FormatName
  \/ EndOfInput

Spec == Init /\ [][Next]_vars

SpecTrace == InitTrace /\ [][Next]_vars

SpecClauses == InitClauses /\ [][Next]_vars

SpecLabels == InitLabels /\ [][Next]_vars

SpecMerge == InitMerge /\ [][Next]_vars

SpecOrder == InitOrder /\ [][Next]_vars

SpecTwice == InitTwice /\ [][Next]_vars

SpecAttrs == InitAttrs /\ [][Next]_vars

SpecWild == InitWild /\ [][Next]_vars

SpecAlias == InitAlias /\ [][Next]_vars

----------------------------------------------------------------------------
(* dm_v2_util.WaitForOperation and GetError.                               *)

\* the largest timeout given to WaitForOperation, in seconds
MaxTimeout == 3

\* the polls of one call the model follows; a call without timeout polls on
MaxPolls == MaxTimeout + 1

\* a timeout in seconds: an integer (den = 1) or a half-integer (den = 2)
Seconds(num, den) == [num |-> num, den |-> den]

Timeouts ==
  {None} \cup {Some(Seconds(n, d)) : n \in -1 .. MaxTimeout, d \in {1, 2}}

\* error.content of an HttpError: a JSON document or some other text
Json(data) == [json |-> TRUE, data |-> data]

NotJson == [json |-> FALSE]

Contents ==
  { Json([error |-> [code |-> 404, message |-> "not found"]]),
    Json([error |-> [message |-> "not found"]]),
    Json([reason |-> "backend"]),
    NotJson }

\* the value of a call: returned or raised
Returned(v) == [raised |-> None, value |-> v]

Raised(e) == [raised |-> Some(e)]

\* GetError, lines 38-53: json.loads fails on a text that is no JSON
\* document, data['error'], ['code'] and ['message'] fail on a missing key
GetError(content) ==
  IF ~content.json THEN Raised("ValueError")
  ELSE IF "error" \notin DOMAIN content.data THEN Raised("KeyError")
  ELSE IF "code" \notin DOMAIN content.data.error THEN Raised("KeyError")
  ELSE IF "message" \notin DOMAIN content.data.error THEN Raised("KeyError")
  ELSE Returned(<<"ResponseError: code=", content.data.error.code,
                  ", message=", content.data.error.message>>)

\* what client.operations.Get does: it returns an Operation or raises HttpError
Operation(status, error) == [kind |-> "Operation", status |-> status, error |-> error]

HttpError(content) == [kind |-> "HttpError", content |-> content]

Responses ==
  { Operation("PENDING", FALSE), Operation("RUNNING", FALSE),
    Operation("RUNNING", TRUE), Operation("DONE", FALSE),
    Operation("DONE", TRUE) }
  \cup {HttpError(content) : content \in Contents}

\* the loop goes on through the last tick
LoopConditionInclusive(t, n) ==
  IF t = None THEN TRUE ELSE n * t[1].den <= t[1].num

\* line 110: while timeout is None or ticks < timeout
LoopCondition(t, n) ==
  IF t = None THEN TRUE ELSE n * t[1].den < t[1].num

\* lines 112-131: how one poll ends the call; "none" goes on to sleep
PollOutcome(response) ==
  IF response.kind = "HttpError"
  THEN IF GetError(response.content).raised = None THEN "HttpException"
       ELSE GetError(response.content).raised[1]
  ELSE IF response.status = "DONE"
       THEN IF response.error THEN "DeploymentManagerError: Error in Operation"
            ELSE "returned"
  ELSE "none"

\* lines 78-108: the call, up to the loop
CallWaitForOperation ==
  /\ wpc = "idle"
  /\ \E t \in Timeouts : timeout' = t
  /\ wpc' = "loop"
  /\ ticks' = 0
  /\ responses' = <<>>
  /\ outcome' = "none"
  /\ mode' = mode
  /\ UNCHANGED parserVars

\* lines 110-131: one turn of the loop
Poll ==
  /\ wpc = "loop"
  /\ LoopCondition(timeout, ticks)
  /\ Len(responses) < MaxPolls
  /\ ticks' = ticks + 1
  /\ \E response \in Responses :
       /\ responses' = Append(responses, response)
       /\ outcome' = PollOutcome(response)
       /\ wpc' = IF PollOutcome(response) = "none" THEN "loop" ELSE "done"
  /\ mode' = mode
  /\ UNCHANGED <<timeout, parserVars>>

\* lines 132-134: the loop condition failed
TimeoutExceeded ==
  /\ wpc = "loop"
  /\ ~LoopCondition(timeout, ticks)
  /\ wpc' = "done"
  /\ outcome' = "DeploymentManagerError: exceeded timeout"
  /\ mode' = mode
  /\ UNCHANGED <<timeout, ticks, responses, parserVars>>

InitWait == InitParser /\ mode = "wait"

NextWait ==
  \/ CallWaitForOperation
  \/ Poll
  \/ TimeoutExceeded

SpecWait == InitWait /\ [][NextWait]_vars

----------------------------------------------------------------------------
(* Vocabulary of the statements below. *)

Errors == {"ExpressionSyntaxError", "IndexError"}

\* a _ParseKey call takes place in this step
KeyStep == pc = "key" /\ pc' # "key"

\* the input of the step's _ParseKey call, and the key it is about
StepInput == Last(log')

StepKey == IF StepInput.paren THEN Front(StepInput.key) ELSE StepInput.key

\* the _ParseKey call of this step reaches _AddKey
AddStep ==
  KeyStep /\ pc' = "keysep"
  /\ ~(StepInput.paren /\ StepInput.cond = Some(FALSE))

\* the Attribute _AddKey merged into: the new column's own Attribute when
\* it holds a copy, else the Attribute of the key's tree node
UsedAttribute ==
  IF Len(columns') > Len(columns) /\ Last(columns').own # None
  THEN Last(columns').own[1]
  ELSE tree'[NodePath(StepKey)]

ProjectedColumns ==
  {n \in 1..Len(columns) : ColAttr(tree, columns[n]).flag = PROJECT}

----------------------------------------------------------------------------
(* C1, as claimed: all PROJECT-flagged entries of the column list have     *)
(* pairwise distinct labels.                                               *)
C1_AllLabelsDistinct ==
  \A i, j \in ProjectedColumns :
    i # j => ColAttr(tree, columns[i]).label # ColAttr(tree, columns[j]).label

(* C1, amended: PROJECT-flagged column entries whose labels were produced  *)
(* by different registering _AngrySnakeCase calls (derived from the key or *)
(* from a transform name, and not replaced by a label clause since) have   *)
(* pairwise distinct labels. Explicit labels, duplicate-column copies,     *)
(* wildcard clones and the exhausted-key fallback may repeat a label.      *)
C1_RegisteredLabelsDistinct ==
  \A i, j \in ProjectedColumns :
    LET ai == ColAttr(tree, columns[i])
        aj == ColAttr(tree, columns[j])
    IN (ai.lreg > 0 /\ aj.lreg > 0 /\ ai.lreg # aj.lreg) => ai.label # aj.label

\* keys b and a.b are both projected with registered labels: B, then A_B
C1_Witness ==
  /\ Len(columns) = 2
  /\ columns[1].key = <<b>> /\ columns[2].key = <<a, b>>
  /\ ColAttr(tree, columns[1]).label = Some(StrV("B"))
  /\ ColAttr(tree, columns[2]).label = Some(StrV("A_B"))
  /\ ColAttr(tree, columns[1]).lreg = 1
  /\ ColAttr(tree, columns[2]).lreg = 2

----------------------------------------------------------------------------
(* C2: the expression ":(a:sort=1)(a)" parsed by a fresh Parser.           *)
Scenario4First ==
  <<[t |-> "colon"], [t |-> "group", empty |-> FALSE],
    KeyInput(<<a>>, FALSE, None, <<Clause(Tok("sort"), TRUE, IntV(1))>>)>>

Scenario4Second ==
  Scenario4First \o
  <<[t |-> "sep", ch |-> ")"], [t |-> "group", empty |-> FALSE],
    KeyInput(<<a>>, FALSE, None, <<>>)>>

Scenario4 ==
  Scenario4Second \o <<[t |-> "sep", ch |-> ")"], [t |-> "end"]>>

AfterFirstGroup ==
  parses = 1 /\ log \in {Scenario4First, Scenario4First \o <<[t |-> "sep", ch |-> ")"]>>}

AfterSecondGroup ==
  parses = 1 /\ IsPrefix(Scenario4Second, log) /\ IsPrefix(log, Scenario4)

(* C2, as claimed: after the first group a is flagged DEFAULT and is not a *)
(* column; the second group projects a, and a keeps order 1.               *)
C2_AsClaimed ==
  /\ AfterFirstGroup =>
       tree[<<a>>].flag = DEFAULT /\ ~InColumns(columns, <<a>>)
  /\ AfterSecondGroup =>
       /\ tree[<<a>>].flag = PROJECT /\ InColumns(columns, <<a>>)
       /\ tree[<<a>>].order = Some(IntV(1))

(* C2, amended: the first group, parsed in key-attributes-only mode,       *)
(* records order 1 on a and, because an order is set, marks a hidden,      *)
(* flags it PROJECT and appends it to the column list; the second group,   *)
(* still in key-attributes-only mode, clears hidden on a and adds no       *)
(* column, and a keeps order 1.                                            *)
C2_Scenario4 ==
  /\ AfterFirstGroup =>
       /\ kao
       /\ tree[<<a>>].flag = PROJECT
       /\ tree[<<a>>].hidden
       /\ tree[<<a>>].order = Some(IntV(1))
       /\ columns = <<Column(<<a>>, None)>>
  /\ AfterSecondGroup =>
       /\ kao \/ pc = "idle"
       /\ tree[<<a>>].flag = PROJECT
       /\ ~tree[<<a>>].hidden
       /\ tree[<<a>>].order = Some(IntV(1))
       /\ columns = <<Column(<<a>>, None)>>

C2_Witness == parses = 1 /\ log = Scenario4 /\ result = "returned"

----------------------------------------------------------------------------
(* C3: once a tree node's Attribute has flag PROJECT, no later step        *)
(* changes that flag: the node stays in the tree, flagged PROJECT.         *)
C3_NoDemotion ==
  [][\A p \in DOMAIN tree :
       tree[p].flag = PROJECT => p \in DOMAIN tree' /\ tree'[p].flag = PROJECT]_vars

\* "(a.b)" then "(a.b.c)": a.b was projected and then used as a path prefix
C3_Witness ==
  /\ Len(columns) = 2
  /\ columns[1].key = <<a, b>> /\ columns[2].key = <<a, b, c>>
  /\ tree[<<a>>].flag = INNER
  /\ tree[<<a, b>>].flag = PROJECT
  /\ tree[<<a, b, c>>].flag = PROJECT

----------------------------------------------------------------------------
(* C4: what a later mention of a key that has a tree node leaves alone.    *)

\* the mention carries a clause of this name
GivenClause(inp, base) ==
  \E n \in 1..Len(inp.clauses) : ClauseName(inp.clauses[n]) = Tok(base)

\* the label of a transform on the whole resource is seeded from its name
LabelSeeded(inp) == inp.paren /\ Len(inp.key) = 1

SortOnly(inp) ==
  ~inp.paren /\ Len(inp.clauses) = 1 /\ GivenClause(inp, "sort")

(* C4, as claimed: a field not given in the later mention keeps its        *)
(* earlier value; with only a sort clause the attribute used has the new   *)
(* order and the label, align and transform the key had before.            *)
C4_AsClaimed ==
  [][(AddStep /\ NodePath(StepKey) \in DOMAIN tree) =>
       LET inp == StepInput
           old == tree[NodePath(StepKey)]
           new == UsedAttribute
       IN /\ SortOnly(inp) =>
               /\ new.order = Some(inp.clauses[1].value)
               /\ new.label = old.label
               /\ new.align = old.align
               /\ new.transform = old.transform
          /\ ~GivenClause(inp, "sort") => new.order = old.order
          /\ ~GivenClause(inp, "label") => new.label = old.label
          /\ ~GivenClause(inp, "align") => new.align = old.align
          /\ ~GivenClause(inp, "reverse") => new.reverse = old.reverse
          /\ ~GivenClause(inp, "format") => new.subformat = old.subformat
          /\ ~inp.paren => new.transform = old.transform]_vars

(* C4, amended: a field not given in the later mention keeps its earlier   *)
(* value when that value was set. A label that was unset (a node created   *)
(* as a path prefix) is computed by disambiguation, a transform on the     *)
(* whole resource without a label clause replaces the label by the one     *)
(* seeded from its name, and an unset reverse becomes false.               *)
C4_MergeKeepsSetFields ==
  [][(AddStep /\ NodePath(StepKey) \in DOMAIN tree) =>
       LET inp == StepInput
           old == tree[NodePath(StepKey)]
           new == UsedAttribute
           labelGiven == GivenClause(inp, "label") \/ LabelSeeded(inp)
       IN /\ SortOnly(inp) =>
               /\ new.order = Some(inp.clauses[1].value)
               /\ new.align = old.align
               /\ new.transform = old.transform
               /\ old.label # None => new.label = old.label
          /\ ~GivenClause(inp, "sort") => new.order = old.order
          /\ ~GivenClause(inp, "align") => new.align = old.align
          /\ ~GivenClause(inp, "format") => new.subformat = old.subformat
          /\ ~inp.paren => new.transform = old.transform
          /\ (~labelGiven /\ old.label # None) => new.label = old.label
          /\ (~labelGiven /\ old.label = None) => new.label # None
          /\ (~GivenClause(inp, "reverse") /\ old.reverse # None) =>
               new.reverse = old.reverse
          /\ (~GivenClause(inp, "reverse") /\ old.reverse = None) =>
               new.reverse = Some(FALSE)]_vars

\* key a, labelled X and aligned by earlier mentions, is mentioned again
\* with only a sort clause
C4_Witness ==
  /\ pc = "keysep"
  /\ log = <<KeyInput(<<a>>, FALSE, None, <<Clause(Tok("sort"), TRUE, IntV(1))>>)>>
  /\ <<a>> \in DOMAIN tree
  /\ tree[<<a>>].label = Some(StrV("X"))
  /\ tree[<<a>>].order = Some(IntV(1))
  /\ nkeys = 2

----------------------------------------------------------------------------
(* C5, as claimed: a column is added for a key already in the column list  *)
(* only if the mention carries a transform different from the ones         *)
(* registered for that key.                                                *)
C5_AsClaimed ==
  [][(AddStep /\ Len(columns') > Len(columns) /\ InColumns(columns, StepKey)) =>
       /\ StepInput.paren
       /\ \A n \in 1..Len(columns) :
            columns[n].key = StepKey =>
              ColAttr(tree, columns[n]).transform
                # ColAttr(tree', Last(columns')).transform]_vars

(* C5, amended: for a key that has a tree node, a mention outside          *)
(* key-attributes-only mode of a key already in the column list always     *)
(* appends one more entry, holding a copy of the node's Attribute with the *)
(* mention merged in, whether or not the mention carries a transform, and  *)
(* leaves the node's Attribute as it was; a mention in key-attributes-only *)
(* mode mutates the node's Attribute in place and adds no column. Only the *)
(* empty key, which gets no tree node when it is mentioned without a       *)
(* transform, is appended again without being a copy.                      *)
C5_DuplicateByCopy ==
  [][AddStep =>
       LET k == StepKey
           had == NodePath(k) \in DOMAIN tree
           listed == InColumns(columns, k)
       IN /\ \/ columns' = columns
             \/ \E own \in {None, Some(UsedAttribute)} :
                  columns' = Append(columns, Column(k, own))
          /\ (had /\ kao) => columns' = columns
          /\ (had /\ ~kao /\ listed) =>
               /\ Len(columns') = Len(columns) + 1
               /\ Last(columns').own # None
               /\ tree'[NodePath(k)] = tree[NodePath(k)]
          /\ (had /\ ~kao /\ ~listed) =>
               /\ Len(columns') = Len(columns) + 1
               /\ Last(columns').own = None
          /\ (~had /\ listed /\ Len(columns') > Len(columns)) => k = <<>>]_vars

\* "(a,a)": key a twice in the column list, neither mention with a transform
C5_Witness ==
  /\ Len(columns) = 2
  /\ columns[1] = Column(<<a>>, None)
  /\ columns[2].key = <<a>>
  /\ columns[2].own # None
  /\ columns[2].own[1].transform = None
  /\ tree[<<a>>].transform = None

----------------------------------------------------------------------------
(* C6: how often Defaults() is invoked by one Parse call.                  *)

\* key-attributes-only mode at item n of the log: a ':' precedes it with no
\* format name in between
KaoAt(n) ==
  \E m \in 1..(n - 1) :
    /\ log[m].t = "colon"
    /\ \A q \in (m + 1)..(n - 1) : log[q].t # "name"

OpenGroups == {n \in 1..Len(log) : log[n].t = "group" /\ ~KaoAt(n)}

NamePending ==
  \E m \in 1..Len(log) :
    /\ log[m].t = "name"
    /\ \A q \in OpenGroups : q < m

(* C6, as claimed: Defaults() is invoked at most once per Parse call.      *)
C6_AtMostOnce == mode = "trace" => defaultsCalls <= 1

(* C6, amended: Defaults() is invoked once for every '(...)' group opened  *)
(* outside key-attributes-only mode, and once more at end of input when a  *)
(* format name was parsed after the last such group; one Parse call may    *)
(* invoke it several times.                                                *)
C6_DefaultsPerGroup ==
  mode = "trace" =>
    defaultsCalls =
      Cardinality(OpenGroups)
      + (IF log # <<>> /\ Last(log).t = "end" /\ NamePending THEN 1 ELSE 0)

\* a format name follows a group: Defaults() before the group and at the end
C6_Witness ==
  /\ mode = "trace"
  /\ result = "returned"
  /\ defaultsCalls = 2
  /\ \E m, n \in 1..Len(log) :
       m < n /\ log[m].t = "group" /\ log[n].t = "name"

----------------------------------------------------------------------------
(* C7: every failure of Parse is an ExpressionSyntaxError. The empty key   *)
(* followed by '(' makes key.pop() raise IndexError instead.               *)
C7_OnlySyntaxErrors == result \in {"none", "returned", "ExpressionSyntaxError"}

----------------------------------------------------------------------------
(* C8, as claimed: once Parse completes, every Attribute flagged PROJECT   *)
(* in the tree, in the column list and in the tree passed to SetEmpty has  *)
(* a label.                                                                *)
LabelledWhenProjected(attribute) ==
  attribute.flag = PROJECT => attribute.label # None

C8_AsClaimed ==
  result = "returned" =>
    /\ \A p \in DOMAIN tree : LabelledWhenProjected(tree[p])
    /\ \A n \in 1..Len(columns) : LabelledWhenProjected(ColAttr(tree, columns[n]))
    /\ empty # None => LabelledWhenProjected(empty[1])

(* C8, amended: every Attribute flagged PROJECT in the tree or in the      *)
(* column list has a label; the Attribute of the tree passed to SetEmpty   *)
(* is flagged PROJECT and has none.                                        *)
C8_ProjectedHaveLabels ==
  /\ \A p \in DOMAIN tree : LabelledWhenProjected(tree[p])
  /\ \A n \in 1..Len(columns) : LabelledWhenProjected(ColAttr(tree, columns[n]))
  /\ empty # None => empty[1].flag = PROJECT /\ empty[1].label = None

\* a completed parse with a projected index cloned from a slice
C8_Witness ==
  /\ result = "returned"
  /\ Len(columns) = 2
  /\ columns[2].key = <<a, Index(0)>>
  /\ tree[<<a, Index(0)>>].flag = PROJECT
  /\ tree[<<a, Index(0)>>].label = Some(StrV("A"))
  /\ empty # None

----------------------------------------------------------------------------
(* C9, as claimed: after a syntax error the Projection Spec holds nothing  *)
(* the failed call added (here: the first call on a new Parser).           *)
C9_AsClaimed ==
  (parses = 1 /\ result = "ExpressionSyntaxError") =>
    /\ DOMAIN tree = {<<>>}
    /\ columns = <<>>
    /\ aliases = <<>>
    /\ attributes = <<>>

(* C9, amended: a syntax error ends the Parse call at once and undoes      *)
(* nothing: the step that raises leaves the tree, the column list, the     *)
(* global attributes, the name and the label registry exactly as the       *)
(* input before the error made them, and removes no alias.                 *)
C9_NoRollback ==
  [][(result' \in Errors /\ pc # "idle") =>
       /\ pc' = "idle"
       /\ tree' = tree
       /\ columns' = columns
       /\ attributes' = attributes
       /\ headings' = headings
       /\ DOMAIN aliases \subseteq DOMAIN aliases']_vars

\* "(a,a:bogus=1": key a stays projected after the error
C9_Witness ==
  /\ parses = 1
  /\ result = "ExpressionSyntaxError"
  /\ log = <<KeyInput(<<a>>, FALSE, None, <<Clause(Tok("bogus"), TRUE, IntV(1))>>)>>
  /\ columns = <<Column(<<a>>, None)>>
  /\ tree[<<a>>].flag = PROJECT

----------------------------------------------------------------------------
(* C10: a clause is accepted only if it is alias, align, format, label or  *)
(* sort with '=value' (alias with a true value, align with a supported     *)
(* one), or reverse in boolean form, with or without no-. Any other clause *)
(* raises ExpressionSyntaxError before the key reaches the tree or the     *)
(* column list.                                                            *)
AcceptedClause(cl) ==
  \/ /\ cl.valued
     /\ ~cl.name.no
     /\ cl.name.base \in {"alias", "align", "format", "label", "sort"}
     /\ cl.name.base = "alias" => Truthy(cl.value)
     /\ cl.name.base = "align" => cl.value.t = "str" /\ cl.value.s \in ALIGNMENTS
  \/ /\ ~cl.valued
     /\ cl.name.base = "reverse"

C10_ClauseValidation ==
  [][KeyStep =>
       IF \A n \in 1..Len(StepInput.clauses) : AcceptedClause(StepInput.clauses[n])
       THEN pc' = "keysep" /\ result' \notin Errors
       ELSE /\ pc' = "idle"
            /\ result' = "ExpressionSyntaxError"
            /\ tree' = tree
            /\ columns' = columns]_vars

\* "(a:alias=X:bogus=1": the error is raised and a is not inserted
C10_Witness ==
  /\ result = "ExpressionSyntaxError"
  /\ log = <<KeyInput(<<a>>, FALSE, None,
                      <<Clause(Tok("alias"), TRUE, StrV("X")),
                        Clause(Tok("bogus"), TRUE, IntV(1))>>)>>
  /\ <<a>> \notin DOMAIN tree
  /\ columns = <<>>

----------------------------------------------------------------------------
(* C11: the column list is in insertion order and only grows at its end:   *)
(* no step removes or reorders entries, only a _ParseKey call adds one,    *)
(* and a key insertion that projects the key (outside key-attributes-only  *)
(* mode, or a hidden key) appends exactly one entry for that key, whatever *)
(* the sort values.                                                        *)
C11_AppendOnly ==
  [][/\ IsPrefix(columns, columns')
     /\ Len(columns') <= Len(columns) + 1
     /\ ~KeyStep => columns' = columns
     /\ (AddStep /\ (~kao \/ UsedAttribute.hidden)) =>
          /\ Len(columns') = Len(columns) + 1
          /\ Last(columns').key = StepKey]_vars

\* "(a:sort=2,b:sort=1)": columns [a, b] with order 2 and 1
C11_Witness ==
  /\ parses = 1
  /\ Len(columns) = 2
  /\ columns[1] = Column(<<a>>, None) /\ columns[2] = Column(<<b>>, None)
  /\ tree[<<a>>].order = Some(IntV(2))
  /\ tree[<<b>>].order = Some(IntV(1))

----------------------------------------------------------------------------
(* C12: outside key-attributes-only mode, inserting a non-empty key k      *)
(* leaves a tree node for every prefix of k; the terminal node is flagged  *)
(* PROJECT, every proper-prefix node is INNER unless it was PROJECT        *)
(* before, and an entry for k whose Attribute is flagged PROJECT is        *)
(* appended to the column list.                                            *)
C12_InsertionShape ==
  [][(AddStep /\ ~kao /\ StepKey # <<>>) =>
       LET k == StepKey
       IN /\ \A j \in 1..Len(k) : SubSeq(k, 1, j) \in DOMAIN tree'
          /\ tree'[k].flag = PROJECT
          /\ \A j \in 1..(Len(k) - 1) :
               LET p == SubSeq(k, 1, j)
               IN tree'[p].flag =
                    IF p \in DOMAIN tree /\ tree[p].flag = PROJECT
                    THEN PROJECT ELSE INNER
          /\ Len(columns') = Len(columns) + 1
          /\ Last(columns').key = k
          /\ ColAttr(tree', Last(columns')).flag = PROJECT]_vars

\* "(a.b)": root -> a (INNER) -> b (PROJECT), columns [[a, b]]
C12_Witness ==
  /\ parses = 1
  /\ DOMAIN tree = {<<>>, <<a>>, <<a, b>>}
  /\ tree[<<>>].flag = DEFAULT
  /\ tree[<<a>>].flag = INNER
  /\ tree[<<a, b>>].flag = PROJECT
  /\ columns = <<Column(<<a, b>>, None)>>

----------------------------------------------------------------------------
(* C13: a key whose transform carries a conditional that evaluates false   *)
(* is discarded: the _ParseKey call leaves the tree, the column list and   *)
(* the label registry exactly as they were, and the key list goes on.      *)
C13_DiscardedKey ==
  [][(KeyStep /\ StepInput.paren /\ StepInput.cond = Some(FALSE)
        /\ result' \notin Errors) =>
       /\ pc' = "keysep"
       /\ tree' = tree
       /\ columns' = columns
       /\ headings' = headings]_vars

\* "(a,f()" with a false conditional on f: only a is in the projection
C13_Witness ==
  /\ pc = "keysep"
  /\ log = <<KeyInput(<<f>>, TRUE, Some(FALSE), <<>>)>>
  /\ columns = <<Column(<<a>>, None)>>
  /\ DOMAIN tree = {<<>>, <<a>>}
  /\ headings = {"A"}

----------------------------------------------------------------------------
----------------------------------------------------------------------------
(* C15: the reverse field of the attribute used by a key insertion.        *)

\* the mention carries the clause "reverse" (no = FALSE) or "no-reverse"
GivenReverse(inp, no) ==
  \E n \in 1..Len(inp.clauses) :
    inp.clauses[n] = Clause([no |-> no, base |-> "reverse"], FALSE, IntV(0))

\* the key is an index that has no node yet, beside a slice that has one
ClonesSlice(k) ==
  /\ k # <<>>
  /\ k \notin DOMAIN tree
  /\ Last(k).t = "index"
  /\ Front(k) \o <<Slice>> \in DOMAIN tree

----------------------------------------------------------------------------
(* C16: Parse(e) called twice in succession on one Parser.                 *)

\* the second call has returned and parsed the expression of the first
ParsedTwice ==
  /\ parses = 2
  /\ result = "returned"
  /\ first # None
  /\ log = first[1].log

\* the key mentions of the expression outside key-attributes-only mode
ProjectingMentions == {n \in 1..Len(log) : log[n].t = "key" /\ ~KaoAt(n)}

----------------------------------------------------------------------------
(* C17: an empty projection is OK. A Parse call with an absent or empty    *)
(* expression returns at once without error, adds no column and no tree    *)
(* node but the root, created with flag DEFAULT when the spec had none;    *)
(* an empty group "()" and the end of the expression change neither tree   *)
(* nor columns and raise nothing, so that "()" on a new Parser returns     *)
(* with the root alone and no column.                                      *)
C17_EmptyProjection ==
  [][/\ parses' = parses + 1 =>
          /\ result' \in {"none", "returned"}
          /\ pc' = "idle" => result' = "returned"
          /\ columns' = columns
          /\ DOMAIN tree' = DOMAIN tree \cup {<<>>}
          /\ \A p \in DOMAIN tree : tree'[p] = tree[p]
          /\ <<>> \notin DOMAIN tree => tree'[<<>>] = Attribute(DEFAULT)
     /\ log' = Append(log, [t |-> "group", empty |-> TRUE]) =>
          tree' = tree /\ columns' = columns /\ result' = result /\ pc' = "top"
     /\ log' = Append(log, [t |-> "end"]) =>
          tree' = tree /\ columns' = columns /\ result' = "returned"
     /\ (parses' = 1 /\ log' = <<[t |-> "group", empty |-> TRUE], [t |-> "end"]>>) =>
          /\ result' = "returned"
          /\ tree' = [p \in {<<>>} |-> Attribute(DEFAULT)]
          /\ columns' = <<>>]_vars

\* "()" parsed by a new Parser
C17_Witness ==
  /\ parses = 1
  /\ log = <<[t |-> "group", empty |-> TRUE], [t |-> "end"]>>
  /\ result = "returned"
  /\ DOMAIN tree = {<<>>}
  /\ columns = <<>>

----------------------------------------------------------------------------
(* Statements about WaitForOperation.                                      *)

Polls == Len(responses)

\* a poll after which the loop sleeps and goes on
Continuing(response) ==
  response.kind = "Operation" /\ response.status # "DONE"

\* the least number of ticks at which ticks < t fails
Ceil(t) ==
  IF t.num <= 0 THEN 0 ELSE (t.num + t.den - 1) \div t.den

(* C19: WaitForOperation returns normally only if a poll returned DONE     *)
(* with no error; the first poll returning DONE with an error raises       *)
(* DeploymentManagerError, an HttpError from a poll raises HttpException,  *)
(* and in all three cases no further poll is made afterwards.              *)
C19_AsClaimed ==
  /\ outcome = "returned" =>
       Polls > 0 /\ responses[Polls] = Operation("DONE", FALSE)
  /\ \A i \in 1 .. Polls :
       /\ responses[i] = Operation("DONE", FALSE) =>
            i = Polls /\ outcome = "returned"
       /\ responses[i] = Operation("DONE", TRUE) =>
            i = Polls /\ outcome = "DeploymentManagerError: Error in Operation"
       /\ responses[i].kind = "HttpError" =>
            i = Polls /\ outcome = "HttpException"

(* C20 as stated: with a timeout t at most t polls are made, a call none   *)
(* of whose polls reported DONE raised 'exceeded timeout', with t <= 0     *)
(* without polling; without timeout the call ends only on a poll that      *)
(* reports DONE or fails.                                                  *)
C20_AsClaimed ==
  /\ timeout # None =>
       /\ Polls * timeout[1].den <= IF timeout[1].num > 0 THEN timeout[1].num ELSE 0
       /\ (wpc = "done" /\ \A i \in 1 .. Polls : ~(responses[i].kind = "Operation"
                                                   /\ responses[i].status = "DONE")) =>
            outcome = "DeploymentManagerError: exceeded timeout"
       /\ (wpc = "done" /\ timeout[1].num <= 0) =>
            Polls = 0 /\ outcome = "DeploymentManagerError: exceeded timeout"
  /\ (timeout = None /\ wpc = "done") =>
       Polls > 0 /\ ~Continuing(responses[Polls])

(* C20: with a timeout t the call makes at most t polls, rounded up when   *)
(* t is no integer; a call none of whose polls reported DONE or failed     *)
(* made exactly that many polls and raised DeploymentManagerError          *)
(* 'exceeded timeout', with t <= 0 without polling at all; without         *)
(* timeout the call ends only on a poll that reports DONE or fails.        *)
C20_TimeoutBound ==
  /\ timeout # None =>
       /\ Polls <= Ceil(timeout[1])
       /\ (timeout[1].den = 1 /\ timeout[1].num >= 0) => Polls <= timeout[1].num
       /\ (wpc = "done" /\ \A i \in 1 .. Polls : Continuing(responses[i])) =>
            /\ outcome = "DeploymentManagerError: exceeded timeout"
            /\ Polls = Ceil(timeout[1])
       /\ outcome = "DeploymentManagerError: exceeded timeout" =>
            \A i \in 1 .. Polls : Continuing(responses[i])
       /\ (wpc = "done" /\ timeout[1].num <= 0) =>
            Polls = 0 /\ outcome = "DeploymentManagerError: exceeded timeout"
  /\ (timeout = None /\ wpc = "done") =>
       /\ Polls > 0 /\ ~Continuing(responses[Polls])
       /\ outcome # "DeploymentManagerError: exceeded timeout"

\* a timeout of a second and a half runs out after two polls
C20_Witness ==
  /\ timeout = Some(Seconds(3, 2))
  /\ wpc = "done"
  /\ responses = <<Operation("PENDING", FALSE), Operation("RUNNING", TRUE)>>
  /\ outcome = "DeploymentManagerError: exceeded timeout"

----------------------------------------------------------------------------
(* C21: the label _AngrySnakeCase derives from a key.                      *)

IsName(component) == component.t = "name"

RECURSIVE SuffixLabel(_, _, _)
\* the '_'-join of the names from position i on, each name upper-cased
\* as it stands, or first split at its case boundaries when snake is set
SuffixLabel(names, i, snake) ==
  IF i > Len(names) THEN ""
  ELSE (IF snake THEN KeySnake(names[i].s)
        ELSE UpperJoin(names[i].s, 1, Len(names[i].s)))
       \o (IF i < Len(names) THEN "_" \o SuffixLabel(names, i + 1, snake) ELSE "")

\* the label of the shortest right-hand suffix that is not in the registry
\* H, which then holds it too; the join of all names, with H as it was,
\* when every suffix is in H
DerivedLabel(key, H, snake) ==
  LET names == SelectSeq(key, IsName)
      free == {i \in 1..Len(names) : SuffixLabel(names, i, snake) \notin H}
      shortest == CHOOSE i \in free : \A j \in free : j <= i
  IN IF free = {}
     THEN [label |-> SuffixLabel(names, 1, snake), headings |-> H, fallback |-> TRUE]
     ELSE [label |-> SuffixLabel(names, shortest, snake),
           headings |-> H \cup {SuffixLabel(names, shortest, snake)},
           fallback |-> FALSE]

\* the key _AngrySnakeCase is called with by this step's _ParseKey call:
\* the transform's name for a transform on the whole resource without a
\* label clause, the key itself when neither the mention nor the
\* attribute merged into has a label, and no call otherwise
SnakeCaseCall ==
  LET inp == StepInput
      k == StepKey
  IN IF GivenClause(inp, "label") THEN None
     ELSE IF LabelSeeded(inp) THEN Some(<<Last(inp.key)>>)
     ELSE IF NodePath(k) \in DOMAIN tree
          THEN (IF tree[NodePath(k)].label = None THEN Some(k) ELSE None)
     ELSE IF ClonesSlice(k)
          THEN (IF tree[Front(k) \o <<Slice>>].label = None THEN Some(k) ELSE None)
     ELSE Some(k)

\* the statement of C21 with the names joined as snake tells
LabelDerivation(snake) ==
  AddStep =>
    IF SnakeCaseCall = None THEN headings' = headings
    ELSE LET derived == DerivedLabel(SnakeCaseCall[1], headings, snake)
         IN /\ UsedAttribute.label = Some(StrV(derived.label))
            /\ headings' = derived.headings
            /\ derived.label \in headings => derived.fallback

(* C21, as claimed: _AngrySnakeCase returns the upper-cased '_'-join of    *)
(* the shortest right-hand suffix of the key's names that is not in the    *)
(* registry and adds it to the registry; if every suffix is registered it  *)
(* returns the join of all names and leaves the registry unchanged.        *)
C21_AsClaimed == [][LabelDerivation(FALSE)]_vars

(* C21, amended: as claimed, with each name of the suffix first split at   *)
(* its case boundaries ('aB' gives 'A_B') and then upper-cased; a label    *)
(* that was in the registry before the call is returned only in the        *)
(* fallback case.                                                          *)
C21_ShortestFreeSuffix == [][LabelDerivation(TRUE)]_vars

\* "(a.b,b)": b alone finds B registered, has no further name and falls
\* back to B
C21_Witness ==
  /\ Len(columns) = 2
  /\ columns[1].key = <<a, b>> /\ columns[2].key = <<b>>
  /\ ColAttr(tree, columns[1]).label = Some(StrV("B"))
  /\ ColAttr(tree, columns[2]).label = Some(StrV("B"))
  /\ headings = {"B"}

----------------------------------------------------------------------------
\* the key of this step has no tree node and is not cloned from a slice
BrandNew(k) == NodePath(k) \notin DOMAIN tree /\ ~ClonesSlice(k)

(* C22: in key-attributes-only mode a brand-new key whose clause sets an   *)
(* order, whatever its value, is marked hidden, flagged PROJECT and        *)
(* appended to the column list.                                            *)
C22_AsClaimed ==
  [][(AddStep /\ kao /\ BrandNew(StepKey) /\ GivenClause(StepInput, "sort")) =>
       /\ UsedAttribute.hidden
       /\ UsedAttribute.flag = PROJECT
       /\ Len(columns') = Len(columns) + 1
       /\ Last(columns').key = StepKey]_vars

----------------------------------------------------------------------------
(* C23: a key insertion appends (key, attribute) to the column list and    *)
(* flags the attribute PROJECT if and only if the Parser is not in         *)
(* key-attributes-only mode or the attribute is hidden after the merge;    *)
(* otherwise the column list is unchanged, a key that had no tree node is  *)
(* flagged DEFAULT and a key that had one keeps its flag.                  *)
C23_ProjectOrDefault ==
  [][AddStep =>
       LET k == StepKey
           had == NodePath(k) \in DOMAIN tree
       IN IF ~kao \/ UsedAttribute.hidden
          THEN /\ Len(columns') = Len(columns) + 1
               /\ SubSeq(columns', 1, Len(columns)) = columns
               /\ Last(columns').key = k
               /\ ColAttr(tree', Last(columns')) = UsedAttribute
               /\ UsedAttribute.flag = PROJECT
          ELSE /\ columns' = columns
               /\ ~had => tree'[NodePath(k)].flag = DEFAULT
               /\ had => tree'[NodePath(k)].flag = tree[NodePath(k)].flag]_vars

\* ":(a:sort=2,a:reverse)": the first mention is hidden and projected, the
\* second one clears hidden, adds no column and leaves the flag PROJECT
C23_Witness ==
  /\ kao
  /\ nkeys = 2
  /\ columns = <<Column(<<a>>, None)>>
  /\ tree[<<a>>].flag = PROJECT
  /\ ~tree[<<a>>].hidden
  /\ tree[<<a>>].order = Some(IntV(2))
  /\ tree[<<a>>].reverse = Some(TRUE)

----------------------------------------------------------------------------
(* C24: a key that is already in the column list is mentioned again        *)
(* outside key-attributes-only mode.                                       *)

\* this step is such a mention
DuplicateMention == AddStep /\ ~kao /\ InColumns(columns, StepKey)

\* every earlier column entry and the Attribute it holds are as before,
\* and one entry for the key is added
OneEntryAppended ==
  /\ Len(columns') = Len(columns) + 1
  /\ \A n \in 1..Len(columns) :
       /\ columns'[n] = columns[n]
       /\ ColAttr(tree', columns'[n]) = ColAttr(tree, columns[n])
  /\ Last(columns').key = StepKey

\* the new entry holds a copy of the node's Attribute with the mention
\* merged in, and the node's Attribute is as before
CopyOfNode ==
  LET inp == StepInput
      node == NodePath(StepKey)
      old == tree[node]
      new == Last(columns').own[1]
  IN /\ node \in DOMAIN tree
     /\ tree'[node] = tree[node]
     /\ Last(columns').own # None
     /\ new.flag = PROJECT /\ ~new.hidden
     /\ ~GivenClause(inp, "sort") => new.order = old.order
     /\ (~GivenClause(inp, "label") /\ ~LabelSeeded(inp)) => new.label = old.label
     /\ ~GivenClause(inp, "align") => new.align = old.align
     /\ ~GivenClause(inp, "reverse") =>
          new.reverse = (IF old.reverse = None THEN Some(FALSE) ELSE old.reverse)
     /\ ~inp.paren => new.transform = old.transform
     /\ ~GivenClause(inp, "format") => new.subformat = old.subformat

(* C24, as claimed: the tree node's Attribute for the key and every        *)
(* earlier column entry are left unchanged, the merge is applied to a copy *)
(* of the node's Attribute and one new entry holding the copy is appended. *)
C24_AsClaimed ==
  [][DuplicateMention => (OneEntryAppended /\ CopyOfNode)]_vars

(* C24, amended: as claimed for a key that has a tree node; the empty key  *)
(* has none until it is mentioned with a transform, and its new entry      *)
(* then holds the mention's own Attribute, no copy, which becomes the      *)
(* key's node when the mention has a transform. In both cases every        *)
(* earlier column entry is unchanged and exactly one entry is appended.    *)
C24_DuplicateColumn ==
  [][DuplicateMention =>
       /\ OneEntryAppended
       /\ NodePath(StepKey) \in DOMAIN tree => CopyOfNode
       /\ NodePath(StepKey) \notin DOMAIN tree =>
            /\ StepKey = <<>>
            /\ IF StepInput.paren
               THEN NodePath(StepKey) \in DOMAIN tree' /\ Last(columns').own = None
               ELSE NodePath(StepKey) \notin DOMAIN tree' /\ Last(columns').own # None]_vars

\* "(a:sort=1,a:label=X)": the second entry has label X and order 1, the
\* node of a keeps the label A
C24_Witness ==
  /\ Len(columns) = 2
  /\ columns[1] = Column(<<a>>, None)
  /\ columns[2].key = <<a>>
  /\ columns[2].own # None
  /\ columns[2].own[1].label = Some(StrV("X"))
  /\ columns[2].own[1].order = Some(IntV(1))
  /\ tree[<<a>>].label = Some(StrV("A"))
  /\ tree[<<a>>].order = Some(IntV(1))

----------------------------------------------------------------------------
(* C25: wildcard instantiation.                                            *)

\* the paths of T below p, p itself left out
Below(T, p) == {q \in DOMAIN T : IsPrefix(p, q) /\ q # p}

\* the part of q that follows its prefix p
Rest(p, q) == SubSeq(q, Len(p) + 1, Len(q))

\* the index node made in this step has the fields of the slice node but
\* for those the mention gives, the flag, and a reverse that is resolved
MergedIntoClone(inp, slice, new) ==
  /\ new.hidden = slice.hidden
  /\ ~GivenClause(inp, "sort") => new.order = slice.order
  /\ (~GivenClause(inp, "label") /\ slice.label # None) => new.label = slice.label
  /\ GivenClause(inp, "label") => new.label # slice.label
  /\ ~GivenClause(inp, "align") => new.align = slice.align
  /\ ~GivenClause(inp, "reverse") =>
       new.reverse = (IF slice.reverse = None THEN Some(FALSE) ELSE slice.reverse)
  /\ ~inp.paren => new.transform = slice.transform
  /\ ~GivenClause(inp, "format") => new.subformat = slice.subformat

(* C25: when the last component of an inserted key is an index without a   *)
(* node and a slice sibling exists, the new index node is a clone of the   *)
(* whole slice subtree with the mention merged into its root, and the      *)
(* slice subtree is unchanged; a key insertion changes no node that is     *)
(* not on the key's own path, so later changes below the index leave the   *)
(* slice subtree alone, and the other way round.                           *)
C25_WildcardClone ==
  [][AddStep =>
       LET k == StepKey
           slice == Front(k) \o <<Slice>>
       IN /\ \A p \in DOMAIN tree :
               ~IsPrefix(p, NodePath(k)) => p \in DOMAIN tree' /\ tree'[p] = tree[p]
          /\ ClonesSlice(k) =>
               /\ Below(tree', k) = {k \o Rest(slice, q) : q \in Below(tree, slice)}
               /\ \A q \in Below(tree, slice) : tree'[k \o Rest(slice, q)] = tree[q]
               /\ tree'[slice] = tree[slice]
               /\ MergedIntoClone(StepInput, tree[slice], tree'[k])]_vars

\* "(a[].b,a[0],a[].b:label=X)": the label given to a[].b after a[0] was
\* cloned has not reached a[0].b
C25_Witness ==
  /\ nkeys = 3
  /\ <<a, Index(0), b>> \in DOMAIN tree
  /\ <<a, Slice, b>> \in DOMAIN tree
  /\ tree[<<a, Index(0), b>>].label = Some(StrV("B"))
  /\ tree[<<a, Slice, b>>].label = Some(StrV("X"))
  /\ tree[<<a, Index(0)>>].flag = PROJECT

----------------------------------------------------------------------------
(* C29: every tree node but the root that has a child is flagged INNER or  *)
(* PROJECT, never DEFAULT.                                                 *)
C29_AsClaimed ==
  \A p \in DOMAIN tree :
    (p # <<>> /\ Below(tree, p) # {}) => tree[p].flag \in {INNER, PROJECT}

----------------------------------------------------------------------------
(* C26: Defaults() at end of input.                                        *)

\* this step is the end of the input
EndStep == log' = Append(log, [t |-> "end"])

\* a format name was parsed and no group of either mode follows the last
NameThenNoGroup ==
  \E m \in 1..Len(log) :
    /\ log[m].t = "name"
    /\ \A q \in (m + 1)..Len(log) : log[q].t # "group"

(* C26, as claimed: at end of input Defaults() is invoked if and only if a *)
(* format name was parsed and no '(...)' key list of either mode follows   *)
(* the last name.                                                          *)
C26_AsClaimed ==
  [][EndStep =>
       defaultsCalls' = defaultsCalls + (IF NameThenNoGroup THEN 1 ELSE 0)]_vars

(* C26, amended: at end of input Defaults() is invoked if and only if a    *)
(* format name was parsed and no '(...)' key list outside                  *)
(* key-attributes-only mode follows the last name; a key list after ':'    *)
(* does not count.                                                         *)
C26_DefaultsAtEnd ==
  [][EndStep =>
       defaultsCalls' = defaultsCalls + (IF NamePending THEN 1 ELSE 0)]_vars

\* "ab:(a)": the key list follows the name in key-attributes-only mode, and
\* Defaults() is invoked at the end
C26_Witness ==
  /\ parses = 1
  /\ log = <<[t |-> "name", name |-> <<"a", "b">>], [t |-> "colon"],
             [t |-> "group", empty |-> FALSE],
             KeyInput(<<a>>, FALSE, None, <<>>),
             [t |-> "sep", ch |-> ")"], [t |-> "end"]>>
  /\ defaultsCalls = 1
  /\ result = "returned"

----------------------------------------------------------------------------
(* C27: the alias table and the labels of the inserted keys.               *)

\* the mention has the clause alias=value, with <<value>> the name
NamedByAlias(inp, name) ==
  \E n \in 1..Len(inp.clauses) :
    /\ inp.clauses[n].name = Tok("alias")
    /\ inp.clauses[n].valued
    /\ Some(inp.clauses[n].value) = name

(* C27, as claimed: for each label the alias table maps it to the key of   *)
(* the most recent insertion that ended with that label.                   *)
C27_AsClaimed ==
  \A l \in DOMAIN lastLabelled :
    l \in DOMAIN aliases /\ aliases[l] = lastLabelled[l]

(* C27, amended: every key insertion that is not discarded registers       *)
(* label -> key with the attribute's final label; so each label is mapped  *)
(* to the key of the most recent insertion that ended with it, unless an   *)
(* alias clause parsed after that insertion has given that name to the     *)
(* key of its own mention.                                                 *)
C27_LabelAliases ==
  [][/\ AddStep => aliases'[UsedAttribute.label] = StepKey
     /\ \A l \in DOMAIN lastLabelled' :
          /\ l \in DOMAIN aliases'
          /\ aliases'[l] # lastLabelled'[l] =>
               \/ /\ l \in DOMAIN lastLabelled
                  /\ lastLabelled'[l] = lastLabelled[l]
                  /\ aliases[l] # lastLabelled[l]
                  /\ aliases'[l] = aliases[l]
               \/ /\ KeyStep
                  /\ NamedByAlias(StepInput, l)
                  /\ aliases'[l] = StepKey]_vars

\* "(a:label=X,b:alias=X)": a was the last key inserted with label X, and
\* X is an alias of b
C27_Witness ==
  /\ Some(StrV("X")) \in DOMAIN lastLabelled
  /\ lastLabelled[Some(StrV("X"))] = <<a>>
  /\ aliases[Some(StrV("X"))] = <<b>>
  /\ aliases[Some(StrV("B"))] = <<b>>
  /\ Len(columns) = 2

----------------------------------------------------------------------------
(* C28: how long key-attributes-only mode lasts.                           *)

\* the expression ":(a)(b)", up to its second key and as a whole
TwoGroupsAfterColon ==
  <<[t |-> "colon"], [t |-> "group", empty |-> FALSE],
    KeyInput(<<a>>, FALSE, None, <<>>), [t |-> "sep", ch |-> ")"],
    [t |-> "group", empty |-> FALSE], KeyInput(<<b>>, FALSE, None, <<>>)>>

\* this step parses a segment of this kind
SegmentStep(kind) == Len(log') = Len(log) + 1 /\ Last(log').t = kind

(* C28: key-attributes-only mode is set by a ':' segment, stays set        *)
(* through every later '(...)' and '[...]' segment of the same Parse call  *)
(* and is cleared only by a format-name segment or by the start of the     *)
(* next Parse call with a non-empty expression; in ":(a)(b)" both groups   *)
(* are parsed in that mode, and neither a nor b becomes a column.          *)
C28_ModeLasts ==
  [][/\ SegmentStep("colon") => kao'
     /\ SegmentStep("name") => ~kao'
     /\ (parses' = parses + 1 /\ pc' = "top") => ~kao'
     /\ (kao /\ ~kao') =>
          SegmentStep("name") \/ (parses' = parses + 1 /\ pc' = "top")
     /\ (~kao /\ kao') => SegmentStep("colon")
     /\ (parses' = 1 /\ log' # <<>> /\ IsPrefix(log', TwoGroupsAfterColon)) =>
          /\ kao'
          /\ columns' = <<>>
          /\ \A p \in DOMAIN tree' : tree'[p].flag = DEFAULT]_vars

\* ":(a)(b)" parsed by a new Parser
C28_Witness ==
  /\ parses = 1
  /\ log = TwoGroupsAfterColon \o <<[t |-> "sep", ch |-> ")"], [t |-> "end"]>>
  /\ result = "returned"
  /\ kao
  /\ columns = <<>>
  /\ tree[<<a>>].flag = DEFAULT
  /\ tree[<<b>>].flag = DEFAULT

----------------------------------------------------------------------------
(* C30: when an alias clause takes effect.                                 *)

\* clause n of the mention is reached by the loop of _ParseKeyAttributes:
\* it and every clause before it is accepted
ClauseReached(inp, n) == \A m \in 1..n : AcceptedClause(inp.clauses[m])

\* the _ParseKey call of this step returns at the false conditional
DiscardStep ==
  KeyStep /\ pc' = "keysep"
  /\ StepInput.paren /\ StepInput.cond = Some(FALSE)

(* C30: an 'alias=value' clause registers value -> key in the alias table   *)
(* when the clause is parsed, before the transform's conditional is        *)
(* evaluated and before the later clauses of the key are validated: after  *)
(* the _ParseKey call the value is an alias of the key also when the key   *)
(* was discarded by a false conditional or a later clause raised, and in   *)
(* those two cases neither the tree nor the column list has changed.       *)
C30_AliasAtOnce ==
  [][(KeyStep /\ result' # "IndexError") =>
       /\ \A n \in 1..Len(StepInput.clauses) :
            (ClauseReached(StepInput, n)
               /\ StepInput.clauses[n].name = Tok("alias")) =>
              /\ Some(StepInput.clauses[n].value) \in DOMAIN aliases'
              /\ aliases'[Some(StepInput.clauses[n].value)] = StepKey
       /\ (DiscardStep \/ result' = "ExpressionSyntaxError") =>
            tree' = tree /\ columns' = columns]_vars

\* "(b.f():alias=X" with a false conditional: b is discarded, and X is an
\* alias of b
C30_Witness ==
  /\ parses = 1
  /\ pc = "keysep"
  /\ log = <<KeyInput(<<b, f>>, TRUE, Some(FALSE),
                      <<Clause(Tok("alias"), TRUE, StrV("X"))>>)>>
  /\ aliases = (Some(StrV("X")) :> <<b>>)
  /\ <<b>> \notin DOMAIN tree
  /\ columns = <<>>

====
